---- MODULE Spec2Model ----
(***************************************************************************)
(* A model of the reactive-value engine of src/Main.cpp: Property<T>,      *)
(* Reaction, ReactionBase/PropertyBase edges, ValueGuard and               *)
(* Reaction::DeferredGuard.                                                *)
(*                                                                         *)
(* The engine is single threaded and re-entrant: a reaction's action or a  *)
(* property's producer calls getValue/setValue, which call back into the   *)
(* engine.  The model keeps the C++ call stack explicitly (stack): one     *)
(* frame per running Reaction::execute, per Property::getValue that is     *)
(* recomputing, per DeferredGuard that is alive and per running            *)
(* ~DeferredGuard loop.  One action is one call or one return.             *)
(*                                                                         *)
(* The host program (the code that owns the properties and reactions and   *)
(* supplies the closures) is the environment: Init picks one of a few      *)
(* host programs (prog), whose closures are small instruction lists, and   *)
(* the Host* actions are the calls the host can make.                      *)
(***************************************************************************)
EXTENDS Integers, Sequences, FiniteSets, TLC

\* ------------------------------------------------------------------ bounds

\* Property<T> values are T = integers; producers compute modulo ValMod.
ValMod == 3

\* How many DeferredGuard objects the host keeps alive at once (nesting).
MaxScopes == 2

\* How many host setValue calls of one batch the history variable records.
MaxLog == 2

\* size_t maxIterations = 64 in ~DeferredGuard.
maxIterations == 64

\* ------------------------------------------------------------------- nodes

Props == {"A", "B", "C", "D"}

Reacts == {"R", "S"}

Nodes == Props \cup Reacts

\* Reaction::current{} is a null pointer.
NULL == "null"

Vals == 0 .. (ValMod - 1)

\* ---------------------------------------------------------------- closures
\* A closure is a list of instructions and a constant k.  A producer returns
\* (the sum of the values it read + k) modulo ValMod; an action returns nothing.
\*   get p      v := p.getValue()
\*   getIf p    if the value read last is not 0 then v := p.getValue()
\*   setDec p   if the value read last is > 0 then p.setValue(that value - 1)
\*   setCopy p  p.setValue(the value read last)

Get(p) == [op |-> "get", p |-> p]

GetIf(p) == [op |-> "getIf", p |-> p]

SetDec(p) == [op |-> "setDec", p |-> p]

SetCopy(p) == [op |-> "setCopy", p |-> p]

Fn(body, k) == [body |-> body, k |-> k]

\* The host programs.  fns[p]: the producers the host may give p with
\* setFunction; acts[r]: the action of reaction r (none: r is never built);
\* vals[p]: the values the host may give p with setValue; props: the
\* properties the program uses.

\* The diamond of the demo (Main.cpp 294-306): B = f(A), C = g(A), D = h(B, C),
\* reaction R prints D (Main.cpp 347).
Diamond ==
    [fns  |-> [p \in Props |->
                 CASE p = "B" -> << Fn(<<Get("A")>>, 1) >>
                   [] p = "C" -> << Fn(<<Get("A")>>, 2) >>
                   [] p = "D" -> << Fn(<<Get("B"), Get("C")>>, 0) >>
                   [] OTHER   -> << >>],
     acts |-> [r \in Reacts |->
                 CASE r = "R" -> << Fn(<<Get("D")>>, 0) >>
                   [] r = "S" -> << >>],
     vals |-> [p \in Props |-> IF p = "A" THEN Vals ELSE {}],
     props |-> {"A", "B", "C", "D"}]

\* A data-dependent branch (Main.cpp 279-286, E reads A and reads it again
\* only on one branch): C reads A, and reads B only when A is not 0.
Branch ==
    [fns  |-> [p \in Props |->
                 CASE p = "C" -> << Fn(<<Get("A"), GetIf("B")>>, 0) >>
                   [] OTHER   -> << >>],
     acts |-> [r \in Reacts |->
                 CASE r = "R" -> << Fn(<<Get("C")>>, 0) >>
                   [] r = "S" -> << >>],
     vals |-> [p \in Props |-> IF p \in {"A", "B"} THEN Vals ELSE {}],
     props |-> {"A", "B", "C"}]

\* Two properties whose producers read each other: A = B + 1, B = A.
Cycle ==
    [fns  |-> [p \in Props |->
                 CASE p = "A" -> << Fn(<<Get("B")>>, 1) >>
                   [] p = "B" -> << Fn(<<Get("A")>>, 0) >>
                   [] OTHER   -> << >>],
     acts |-> [r \in Reacts |->
                 CASE r = "R" -> << Fn(<<Get("A")>>, 0) >>
                   [] r = "S" -> << >>],
     vals |-> [p \in Props |-> {}],
     props |-> {"A", "B"}]

\* A reaction that writes what it reads until it reaches 0: the flush takes
\* one round more than the value the host wrote.
Countdown ==
    [fns  |-> [p \in Props |-> << >>],
     acts |-> [r \in Reacts |->
                 CASE r = "R" -> << Fn(<<Get("A"), SetDec("A")>>, 0) >>
                   [] r = "S" -> << >>],
     vals |-> [p \in Props |->
                 IF p = "A"
                 THEN {0, 1, maxIterations - 2, maxIterations - 1, maxIterations}
                 ELSE {}],
     props |-> {"A"}]

\* A chain of reactions: R copies A into B, S reads B.
Chain ==
    [fns  |-> [p \in Props |-> << >>],
     acts |-> [r \in Reacts |->
                 CASE r = "R" -> << Fn(<<Get("A"), SetCopy("B")>>, 0) >>
                   [] r = "S" -> << Fn(<<Get("B")>>, 0) >>],
     vals |-> [p \in Props |-> IF p = "A" THEN Vals ELSE {}],
     props |-> {"A", "B"}]

\* A property whose producer reads the property itself: A = A + 1, which
\* changes at every recompute, or A = A, which never changes; reaction R
\* reads A, and the host may also write A.
Self ==
    [fns  |-> [p \in Props |->
                 CASE p = "A" -> << Fn(<<Get("A")>>, 1), Fn(<<Get("A")>>, 0) >>
                   [] OTHER   -> << >>],
     acts |-> [r \in Reacts |->
                 CASE r = "R" -> << Fn(<<Get("A")>>, 0) >>
                   [] r = "S" -> << >>],
     vals |-> [p \in Props |-> IF p = "A" THEN Vals ELSE {}],
     props |-> {"A"}]

\* A producer that writes: A reads B, writes the value back into B with
\* setValue and returns it plus 1; B = A.  The host reads only A, so that B
\* is written when its own producer is not running.
Writer ==
    [fns  |-> [p \in Props |->
                 CASE p = "A" -> << Fn(<<Get("B"), SetCopy("B")>>, 1) >>
                   [] p = "B" -> << Fn(<<Get("A")>>, 0) >>
                   [] OTHER   -> << >>],
     acts |-> [r \in Reacts |-> << >>],
     vals |-> [p \in Props |-> {}],
     props |-> {"A"}]

ProgramNames ==
    {"Diamond", "Branch", "Cycle", "Countdown", "Chain", "Self", "Writer"}

ProgramOf(name) ==
    CASE name = "Diamond"   -> Diamond
      [] name = "Branch"    -> Branch
      [] name = "Cycle"     -> Cycle
      [] name = "Countdown" -> Countdown
      [] name = "Chain"     -> Chain
      [] name = "Self"      -> Self
      [] name = "Writer"    -> Writer

\* ------------------------------------------------------------------- state

VARIABLES
    prog,                          \* the host program (its closures)
    value,                         \* Property::value
    function,                      \* Property::function: 0 is the empty function
    dirty,                         \* Property::dirty
    executionInProgress,           \* Property::executionInProgress
    reactionsWhoReceivedOldValue,  \* Property::reactionsWhoReceivedOldValue
    dependentReactions,            \* PropertyBase::dependentReactions
    triggeringProperties,          \* ReactionBase::triggeringProperties
    constructed,                   \* the Reaction objects that exist
    current,                       \* Reaction::current
    isDeferred,                    \* Reaction::isDeferred
    deferred,                      \* Reaction::deferred
    stack,                         \* the call stack, innermost frame last
    failed,                        \* ~DeferredGuard has thrown
    hist                           \* history of the current outermost batch

vars ==
    << prog, value, function, dirty, executionInProgress,
       reactionsWhoReceivedOldValue, dependentReactions, triggeringProperties,
       constructed, current, isDeferred, deferred, stack, failed, hist >>

Program == ProgramOf(prog)

\* ------------------------------------------------------------------ frames
\* kind "react": Reaction::execute running acts[node].
\* kind "prop":  Property::getValue of node from line 159 on; phase "run" while
\*               execute() runs the producer, phase "clear" while the guard of
\*               line 170 is being destroyed (lines 174-175 are still to run).
\* kind "guard": a DeferredGuard that is alive; auto: the one of the Reaction
\*               constructor of node (line 48), destroyed when the
\*               constructor's block ends; otherwise one the host holds.
\* kind "flush": ~DeferredGuard of an enabled guard, lines 87-101.
\* kind "thrown": ~DeferredGuard has thrown (line 98).
\* kind "unwinding": std::bad_function_call, thrown by the call of an empty
\*               function at line 144, is propagating through the frames below.
\* kind "terminated": the exception has left a destructor (std::terminate).
\* pc: the next instruction of the closure; vals: the values its reads
\* returned; saved: ValueGuard::value; old: oldValue; iter: maxIterations;
\* copy: the rest of copyOfDeferred; reads (history): the properties on which
\* getValue was called by this run; rounds (history): the rounds begun;
\* snap, ran (history): deferred as the running round found it, and the
\* reactions the round has executed, in order.

Frame(kind, node) ==
    [kind |-> kind, node |-> node, pc |-> 1, vals |-> << >>, reads |-> {},
     saved |-> NULL, old |-> 0, phase |-> "run", enabled |-> FALSE,
     auto |-> FALSE, copy |-> << >>, iter |-> 0, inRound |-> FALSE,
     rounds |-> 0, snap |-> {}, ran |-> << >>]

ExecFrame(kind, node, saved, old) ==
    [Frame(kind, node) EXCEPT !.saved = saved, !.old = old]

GuardFrame(enabled, auto, node) ==
    [Frame("guard", node) EXCEPT !.enabled = enabled, !.auto = auto]

FlushFrame ==
    [Frame("flush", NULL) EXCEPT !.iter = maxIterations]

Top == stack[Len(stack)]

Pop(stk) == SubSeq(stk, 1, Len(stk) - 1)

SetTop(stk, f) == [stk EXCEPT ![Len(stk)] = f]

Running(stk) ==
    /\ stk # << >>
    /\ stk[Len(stk)].kind \in {"react", "prop"}
    /\ stk[Len(stk)].phase = "run"

\* The closure a frame runs.
Closure(f) ==
    IF f.kind = "react"
    THEN Program.acts[f.node][1]
    ELSE Program.fns[f.node][function[f.node]]

\* A mutant: ~ValueGuard restores nothing.
ValueGuardKeeps(f) == f.node

\* ~ValueGuard, lines 29-31: reference = value.
ValueGuardRestore(f) == f.saved

RECURSIVE Sum(_)
Sum(s) == IF s = << >> THEN 0 ELSE s[1] + Sum(Tail(s))

\* What a producer returns: function() of line 144.
Ret(c, vals) == (Sum(vals) + c.k) % ValMod

\* The host is in control: nothing runs, and the innermost live object, if
\* any, is a DeferredGuard the host holds.
HostTurn ==
    IF stack = << >> THEN TRUE ELSE Top.kind = "guard" /\ ~Top.auto

HostGuards == Len(SelectSeq(stack, LAMBDA f : f.kind = "guard" /\ ~f.auto))

\* ------------------------------------------------------------------- edges
\* e = [dr |-> dependentReactions, tp |-> triggeringProperties]

Edges == [dr |-> dependentReactions, tp |-> triggeringProperties]

\* ReactionBase::addTriggeringProperty, lines 111-114.
addTriggeringProperty(e, c, p) ==
    [dr |-> [e.dr EXCEPT ![p] = @ \cup {c}],
     tp |-> [e.tp EXCEPT ![c] = @ \cup {p}]]

\* A mutant: the loop of lines 118-120 is lost, only line 121 runs.
UnsubscribeClearsOnly(e, c) ==
    [dr |-> e.dr, tp |-> [e.tp EXCEPT ![c] = {}]]

\* A mutant: the early return of line 117 is taken always.
UnsubscribeNothing(e, c) == e

\* ReactionBase::unsubscribeFromTriggeringProperties, lines 116-122.
unsubscribeFromTriggeringProperties(e, c) ==
    [dr |-> [p \in Props |-> IF p \in e.tp[c] THEN e.dr[p] \ {c} ELSE e.dr[p]],
     tp |-> [e.tp EXCEPT ![c] = {}]]

\* A mutant: lines 149-151 are lost, getValue records no edge.
RegistersNothing(e, p) == e

\* Lines 149-151 of getValue: the edge is recorded only for a current consumer.
Registered(e, p) ==
    IF current # NULL THEN addTriggeringProperty(e, current, p) ELSE e

\* ------------------------------------------------------------ invalidation
\* st = [dirty |-> ..., deferred |-> ..., marks |-> ..., calls |-> ...]; dr:
\* the subscriber sets in force.  marks[p] (history): how often the pass has
\* set the dirty flag of p; calls (history): how often Property::makeDirty
\* has been called in the pass.

\* The state an invalidation pass starts from.
Pass(d, df) ==
    [dirty |-> d, deferred |-> df, marks |-> [p \in Props |-> 0], calls |-> 0]

dirtImmune(r) == FALSE

\* A mutant: the test of line 55 is inverted.
ReactionMakeDirtyInverted(st, r) ==
    IF ~dirtImmune(r) THEN st ELSE [st EXCEPT !.deferred = @ \cup {r}]

\* Reaction::makeDirty, lines 54-58.
ReactionMakeDirty(st, r) ==
    IF dirtImmune(r) THEN st ELSE [st EXCEPT !.deferred = @ \cup {r}]

RECURSIVE makeDirty(_, _, _), makeAllDirty(_, _, _)

\* A mutant: line 209 is lost, the subscribers are not invalidated.
makeDirtyShallow(st, dr, n) ==
    IF n \in Reacts THEN ReactionMakeDirty(st, n)
    ELSE [st EXCEPT !.dirty[n] = TRUE]

\* A mutant: the test of line 205 is lost; the pass is cut off when it sets
\* the flag of a property for the third time.
makeDirtyAgain(st, dr, n) ==
    IF n \in Reacts THEN ReactionMakeDirty(st, n)
    ELSE IF st.marks[n] >= 2 THEN [st EXCEPT !.calls = @ + 1]
    ELSE makeAllDirty([st EXCEPT !.dirty[n] = TRUE, !.marks[n] = @ + 1,
                                 !.calls = @ + 1], dr, dr[n])

\* Property::makeDirty, lines 204-210, and the virtual call of line 214.
makeDirty(st, dr, n) ==
    IF n \in Reacts THEN ReactionMakeDirty(st, n)
    ELSE IF st.dirty[n] THEN [st EXCEPT !.calls = @ + 1]
    ELSE makeAllDirty([st EXCEPT !.dirty[n] = TRUE, !.marks[n] = @ + 1,
                                 !.calls = @ + 1], dr, dr[n])

\* The loops of lines 213-215 and 171-173 over a set of consumers.
makeAllDirty(st, dr, S) ==
    IF S = {} THEN st
    ELSE LET n == CHOOSE x \in S : TRUE
         IN  makeAllDirty(makeDirty(st, dr, n), dr, S \ {n})

\* A mutant: the subscribers are not invalidated.
makeDependentReactionsDirtyNone(st, dr, p) == st

\* Property::makeDependentReactionsDirty, lines 212-216.
makeDependentReactionsDirty(st, dr, p) == makeAllDirty(st, dr, dr[p])

\* ----------------------------------------------------------- DeferredGuard

\* DeferredGuard(), lines 77-82: the guard is enabled when no batch is active.
GuardEnabled == ~isDeferred

\* A mutant: every guard flushes when it dies.
DtorFlushesAlways(enabled) == TRUE

\* ~DeferredGuard, line 85: only an enabled guard flushes.
DtorFlushes(enabled) == enabled

\* A mutant: the loop runs while maxIterations >= 0.
LoopContinuesOnceMore(iter) == Cardinality(deferred) > 0 /\ iter >= 0

\* The loop condition of line 88.
LoopContinues(iter) == Cardinality(deferred) > 0 /\ iter > 0

\* The test of line 97.
Throws(iter) == iter = 0

\* A mutant: the copy holds every pending reaction twice.
OrdersTwice(S) ==
    {s \o s : s \in {t \in [1 .. Cardinality(S) -> S] :
                         {t[i] : i \in 1 .. Cardinality(S)} = S}}

\* The orders in which line 89 can copy the unordered set.
Orders(S) ==
    {s \in [1 .. Cardinality(S) -> S] : {s[i] : i \in 1 .. Cardinality(S)} = S}

\* ----------------------------------------------------------------- history
\* hist describes the outermost batch that is open or was closed last. It is
\* reset when a DeferredGuard becomes enabled and when the host makes a call
\* with no guard alive.
\*   active: a guard has been enabled since the reset
\*   exec[r]: how often Reaction::execute of r has started
\*   obs[r]: the values the last finished execution of r read
\*   nsets: how many setValue calls the host made, all on setProp, the last
\*          one with lastVal; at most MaxLog are counted
\*   other: the host made another call, wrote a second property, or made
\*          more setValue calls than MaxLog
\*   subs: the reactions subscribed, directly or through properties, to a
\*         property when the host called setValue on it
\*   reinv: the reactions inserted into deferred while a flush was running
\*   born: the reactions constructed while the batch was active
\*   explicit: the guard that was enabled is one the host holds

Idle ==
    [active |-> FALSE, exec |-> [r \in Reacts |-> 0],
     obs |-> [r \in Reacts |-> << >>], nsets |-> 0, setProp |-> NULL,
     lastVal |-> 0, other |-> FALSE,
     subs |-> {}, reinv |-> {}, born |-> {}, explicit |-> FALSE]

Fresh == [Idle EXCEPT !.active = TRUE]

InFlush == \E i \in 1 .. Len(stack) : stack[i].kind = "flush"

\* The history a step starts from: enables: the step enables a guard.
HistBase(enables) ==
    IF enables THEN Fresh ELSE IF stack = << >> THEN Idle ELSE hist

\* The same, for a host call that is not a setValue.
HistOther(enables) ==
    IF enables THEN [Fresh EXCEPT !.other = TRUE]
    ELSE IF stack = << >> THEN Idle
    ELSE [Fresh EXCEPT !.other = TRUE, !.exec = hist.exec, !.obs = hist.obs,
                       !.reinv = hist.reinv, !.born = hist.born,
                       !.explicit = hist.explicit]

Reinv(h, newDeferred) ==
    IF InFlush THEN [h EXCEPT !.reinv = @ \cup (newDeferred \ deferred)] ELSE h

RECURSIVE Reach(_, _)
Reach(dr, S) ==
    LET next == S \cup UNION {dr[q] : q \in S \cap Props}
    IN  IF next = S THEN S ELSE Reach(dr, next)

\* The reactions subscribed to p directly or through properties.
TransSubs(dr, p) == Reach(dr, dr[p]) \cap Reacts

Logged(h, p, v, dr) ==
    IF h.nsets < MaxLog /\ h.setProp \in {NULL, p} /\ ~h.other
    THEN [h EXCEPT !.nsets = @ + 1, !.setProp = p, !.lastVal = v,
                   !.subs = @ \cup TransSubs(dr, p)]
    ELSE [Fresh EXCEPT !.other = TRUE, !.exec = h.exec, !.obs = h.obs,
                       !.reinv = h.reinv, !.born = h.born,
                       !.explicit = h.explicit]

\* -------------------------------------------------------------------- Init
\* Every property is default constructed (line 227: value {}, no function,
\* not dirty); no reaction exists yet; the statics are as lines 70-72 set them.

Init ==
    /\ prog \in ProgramNames
    /\ value = [p \in Props |-> 0]
    /\ function = [p \in Props |-> 0]
    /\ dirty = [p \in Props |-> FALSE]
    /\ executionInProgress = [p \in Props |-> FALSE]
    /\ reactionsWhoReceivedOldValue = [p \in Props |-> {}]
    /\ dependentReactions = [p \in Props |-> {}]
    /\ triggeringProperties = [n \in Nodes |-> {}]
    /\ constructed = {}
    /\ current = NULL
    /\ isDeferred = FALSE
    /\ deferred = {}
    /\ stack = << >>
    /\ failed = FALSE
    /\ hist = Idle

\* ---------------------------------------------------------------- getValue

\* The caller of a getValue is a running closure, or the host.
Deliver(stk, v) ==
    IF Running(stk)
    THEN SetTop(stk, [stk[Len(stk)] EXCEPT !.vals = Append(@, v), !.pc = @ + 1])
    ELSE stk

\* A mutant: the cache is used only by a property without a producer.
ReturnsCachedNoFunction(p) == ~dirty[p] /\ function[p] = 0

\* Line 153: a property that is not dirty returns its cached value.
ReturnsCached(p) == ~dirty[p]

\* A mutant: a dirty property is recomputed also while it is recomputing.
ReadsStaleNever(p) == FALSE

\* Line 154: a dirty property that is recomputing returns the old value.
ReadsStale(p) == executionInProgress[p]

\* Line 144: function() on an empty std::function throws.
CallsEmpty(p) == function[p] = 0

\* Property::getValue, lines 148-162 (to the call of the producer), called
\* with stk as the call stack; h: the history the step starts from.
GetValue(p, stk, h) ==
    LET e1 == Registered(Edges, p)
    IN  /\ hist' = h
        /\ UNCHANGED << prog, value, function, dirty, constructed, isDeferred,
                        deferred, failed >>
        /\ IF ReturnsCached(p)
           THEN /\ dependentReactions' = e1.dr
                /\ triggeringProperties' = e1.tp
                /\ stack' = Deliver(stk, value[p])
                /\ UNCHANGED << executionInProgress, current,
                                reactionsWhoReceivedOldValue >>
           ELSE IF ReadsStale(p)
           THEN /\ dependentReactions' = e1.dr
                /\ triggeringProperties' = e1.tp
                /\ reactionsWhoReceivedOldValue' =
                       [reactionsWhoReceivedOldValue EXCEPT ![p] = @ \cup {current}]
                /\ stack' = Deliver(stk, value[p])
                /\ UNCHANGED << executionInProgress, current >>
           ELSE LET e2 == unsubscribeFromTriggeringProperties(e1, p)
                IN  /\ dependentReactions' = e2.dr
                    /\ triggeringProperties' = e2.tp
                    /\ executionInProgress' = [executionInProgress EXCEPT ![p] = TRUE]
                    /\ UNCHANGED reactionsWhoReceivedOldValue
                    /\ IF CallsEmpty(p)
                       THEN /\ stack' = Append(stk, Frame("unwinding", p))
                            /\ UNCHANGED current
                       ELSE /\ stack' = Append(stk, ExecFrame("prop", p, current, value[p]))
                            /\ current' = p

\* The host reads a property.
HostGet(p) ==
    /\ HostTurn
    /\ p \in Program.props
    /\ GetValue(p, stack, HistOther(FALSE))

\* The running closure reads a property.
InstrGet ==
    /\ Running(stack)
    /\ Top.pc <= Len(Closure(Top).body)
    /\ LET f == Top
           ins == Closure(f).body[f.pc]
       IN  /\ \/ ins.op = "get"
              \/ ins.op = "getIf" /\ f.vals[Len(f.vals)] # 0
           /\ GetValue(ins.p, SetTop(stack, [f EXCEPT !.reads = @ \cup {ins.p}]), hist)

\* The running closure takes the branch that reads or writes nothing.
InstrSkip ==
    /\ Running(stack)
    /\ Top.pc <= Len(Closure(Top).body)
    /\ LET f == Top
           ins == Closure(f).body[f.pc]
       IN  /\ ins.op \in {"getIf", "setDec"}
           /\ f.vals[Len(f.vals)] = 0
           /\ stack' = SetTop(stack, [f EXCEPT !.pc = @ + 1])
    /\ UNCHANGED << prog, value, function, dirty, executionInProgress,
                    reactionsWhoReceivedOldValue, dependentReactions,
                    triggeringProperties, constructed, current, isDeferred,
                    deferred, failed, hist >>

\* A mutant: line 165 is lost.
StaysDirty(d, p) == d

\* Line 165: dirty = false.
Cleaned(d, p) == [d EXCEPT ![p] = FALSE]

\* A mutant: the stale readers are invalidated whatever the new value is.
CorrectsAlways(stale, v, old) == Cardinality(stale) > 0

\* Lines 167 and 169: the stale readers are invalidated.
Corrects(stale, v, old) == Cardinality(stale) > 0 /\ v # old

\* Lines 162-178 of getValue: the producer has returned.
PropReturn ==
    /\ Running(stack)
    /\ Top.kind = "prop"
    /\ Top.pc > Len(Closure(Top).body)
    /\ LET f == Top
           p == f.node
           v == Ret(Closure(f), f.vals)
           stale == reactionsWhoReceivedOldValue[p]
           corrects == Corrects(stale, v, f.old)
           enabled == corrects /\ GuardEnabled
           flushes == corrects /\ DtorFlushes(enabled)
           st0 == Pass(Cleaned(dirty, p), deferred)
           st == IF corrects THEN makeAllDirty(st0, dependentReactions, stale) ELSE st0
       IN  /\ value' = [value EXCEPT ![p] = v]
           /\ current' = ValueGuardRestore(f)
           /\ executionInProgress' = [executionInProgress EXCEPT ![p] = FALSE]
           /\ dirty' = st.dirty
           /\ deferred' = st.deferred
           /\ isDeferred' = (isDeferred \/ corrects)
           /\ hist' = Reinv(IF enabled THEN Fresh ELSE hist, st.deferred)
           /\ IF flushes
              THEN /\ stack' = Append(SetTop(stack, [f EXCEPT !.phase = "clear"]), FlushFrame)
                   /\ UNCHANGED reactionsWhoReceivedOldValue
              ELSE /\ reactionsWhoReceivedOldValue' =
                          [reactionsWhoReceivedOldValue EXCEPT ![p] = {}]
                   /\ stack' = Deliver(Pop(stack), v)
    /\ UNCHANGED << prog, function, dependentReactions, triggeringProperties,
                    constructed, failed >>

\* Lines 175-178 of getValue, after the guard of line 170 has flushed.
PropClear ==
    /\ stack # << >>
    /\ Top.kind = "prop"
    /\ Top.phase = "clear"
    /\ LET p == Top.node
       IN  /\ reactionsWhoReceivedOldValue' =
                  [reactionsWhoReceivedOldValue EXCEPT ![p] = {}]
           /\ stack' = Deliver(Pop(stack), value[p])
    /\ UNCHANGED << prog, value, function, dirty, executionInProgress,
                    dependentReactions, triggeringProperties, constructed,
                    current, isDeferred, deferred, failed, hist >>

\* ------------------------------------------------- setValue, setFunction

\* Property::setValue, lines 191-200, called with stk as the call stack.
\* The guard of line 198 is destroyed when setValue returns.
SetValue(p, v, stk, h) ==
    LET e1 == unsubscribeFromTriggeringProperties(Edges, p)
        enabled == GuardEnabled
        st0 == Pass([dirty EXCEPT ![p] = FALSE], deferred)
        st == makeDependentReactionsDirty(st0, e1.dr, p)
    IN  /\ dependentReactions' = e1.dr
        /\ triggeringProperties' = e1.tp
        /\ value' = [value EXCEPT ![p] = v]
        /\ function' = [function EXCEPT ![p] = 0]
        /\ dirty' = st.dirty
        /\ deferred' = st.deferred
        /\ isDeferred' = TRUE
        /\ stack' = IF DtorFlushes(enabled) THEN Append(stk, FlushFrame) ELSE stk
        /\ hist' = Reinv(h, st.deferred)
        /\ UNCHANGED << prog, executionInProgress, reactionsWhoReceivedOldValue,
                        constructed, current, failed >>

\* The host writes a property (lines 229-231 and 241-243 are this call too).
HostSetValue(p, v) ==
    /\ HostTurn
    /\ v \in Program.vals[p]
    /\ SetValue(p, v, stack, Logged(HistBase(GuardEnabled), p, v, dependentReactions))

\* The running closure writes a property.
InstrSet ==
    /\ Running(stack)
    /\ Top.pc <= Len(Closure(Top).body)
    /\ LET f == Top
           ins == Closure(f).body[f.pc]
           x == f.vals[Len(f.vals)]
       IN  /\ \/ ins.op = "setCopy"
              \/ ins.op = "setDec" /\ x > 0
           /\ SetValue(ins.p, IF ins.op = "setDec" THEN x - 1 ELSE x,
                       SetTop(stack, [f EXCEPT !.pc = @ + 1]),
                       IF GuardEnabled THEN Fresh ELSE hist)

\* Property::setFunction, lines 181-189 (lines 233-235 and 244-246 are this
\* call too): the host gives p its i-th producer.
HostSetFunction(p, i) ==
    /\ HostTurn
    /\ i \in 1 .. Len(Program.fns[p])
    /\ LET e1 == unsubscribeFromTriggeringProperties(Edges, p)
           enabled == GuardEnabled
           st == makeDirty(Pass(dirty, deferred), e1.dr, p)
       IN  /\ dependentReactions' = e1.dr
           /\ triggeringProperties' = e1.tp
           /\ function' = [function EXCEPT ![p] = i]
           /\ dirty' = st.dirty
           /\ deferred' = st.deferred
           /\ isDeferred' = TRUE
           /\ stack' = IF DtorFlushes(enabled) THEN Append(stack, FlushFrame) ELSE stack
           /\ hist' = HistOther(enabled)
    /\ UNCHANGED << prog, value, executionInProgress, reactionsWhoReceivedOldValue,
                    constructed, current, failed >>

\* ---------------------------------------------------------------- Reaction

\* A mutant: the constructor defers always.
CtorDefersAlways == TRUE

\* A mutant: the constructor never defers.
CtorDefersNever == FALSE

\* Line 44: the constructor defers when a batch is active.
CtorDefers == isDeferred

\* Reaction::Reaction, lines 41-51: the host builds reaction r.  Without a
\* batch the constructor's guard stays alive until execute() has returned.
HostNewReaction(r) ==
    /\ HostTurn
    /\ r \in Reacts \ constructed
    /\ Len(Program.acts[r]) > 0
    /\ constructed' = constructed \cup {r}
    /\ IF CtorDefers
       THEN /\ deferred' = deferred \cup {r}
            /\ hist' = [HistOther(FALSE) EXCEPT !.born = @ \cup {r}]
            /\ UNCHANGED << stack, current, isDeferred, dependentReactions,
                            triggeringProperties >>
       ELSE LET e1 == unsubscribeFromTriggeringProperties(Edges, r)
                h == HistOther(GuardEnabled)
            IN  /\ isDeferred' = TRUE
                /\ stack' = stack \o << GuardFrame(GuardEnabled, TRUE, r),
                                        ExecFrame("react", r, current, 0) >>
                /\ current' = r
                /\ dependentReactions' = e1.dr
                /\ triggeringProperties' = e1.tp
                /\ hist' = [h EXCEPT !.exec[r] = @ + 1]
                /\ UNCHANGED deferred
    /\ UNCHANGED << prog, value, function, dirty, executionInProgress,
                    reactionsWhoReceivedOldValue, failed >>

\* Reaction::execute returns (line 67): ~ValueGuard restores current.
ReactReturn ==
    /\ Running(stack)
    /\ Top.kind = "react"
    /\ Top.pc > Len(Closure(Top).body)
    /\ current' = ValueGuardRestore(Top)
    /\ stack' = Pop(stack)
    /\ hist' = [hist EXCEPT !.obs[Top.node] = Top.vals]
    /\ UNCHANGED << prog, value, function, dirty, executionInProgress,
                    reactionsWhoReceivedOldValue, dependentReactions,
                    triggeringProperties, constructed, isDeferred, deferred,
                    failed >>

\* ----------------------------------------------------------- DeferredGuard

\* The host opens a scope: Reaction::DeferredGuard _; (lines 77-82, 369).
HostBatchEnter ==
    /\ HostTurn
    /\ HostGuards < MaxScopes
    /\ stack' = Append(stack, GuardFrame(GuardEnabled, FALSE, NULL))
    /\ isDeferred' = TRUE
    /\ hist' = IF GuardEnabled THEN [Fresh EXCEPT !.explicit = TRUE] ELSE hist
    /\ UNCHANGED << prog, value, function, dirty, executionInProgress,
                    reactionsWhoReceivedOldValue, dependentReactions,
                    triggeringProperties, constructed, current, deferred,
                    failed >>

\* ~DeferredGuard begins, lines 84-87: the guard on top of the stack dies.
GuardDtor ==
    /\ stack' = IF DtorFlushes(Top.enabled)
                THEN SetTop(stack, FlushFrame)
                ELSE Pop(stack)
    /\ UNCHANGED << prog, value, function, dirty, executionInProgress,
                    reactionsWhoReceivedOldValue, dependentReactions,
                    triggeringProperties, constructed, current, isDeferred,
                    deferred, failed, hist >>

\* The host's scope ends.
HostBatchExit ==
    /\ HostTurn
    /\ stack # << >>
    /\ GuardDtor

\* The block of the Reaction constructor ends (line 50).
CtorGuardExit ==
    /\ stack # << >>
    /\ Top.kind = "guard"
    /\ Top.auto
    /\ GuardDtor

\* Lines 88-89: a round begins with a copy of deferred, in some order.
FlushRoundStart ==
    /\ stack # << >>
    /\ Top.kind = "flush"
    /\ ~Top.inRound
    /\ LoopContinues(Top.iter)
    /\ \E order \in Orders(deferred) :
          stack' = SetTop(stack, [Top EXCEPT !.copy = order, !.inRound = TRUE,
                                             !.rounds = @ + 1,
                                             !.snap = deferred])
    /\ UNCHANGED << prog, value, function, dirty, executionInProgress,
                    reactionsWhoReceivedOldValue, dependentReactions,
                    triggeringProperties, constructed, current, isDeferred,
                    deferred, failed, hist >>

\* Lines 90-92 and 60-64: the next reaction of the copy is erased from
\* deferred and its execute() begins.
FlushExec ==
    /\ stack # << >>
    /\ Top.kind = "flush"
    /\ Top.inRound
    /\ Top.copy # << >>
    /\ LET r == Head(Top.copy)
           e1 == unsubscribeFromTriggeringProperties(Edges, r)
       IN  /\ deferred' = deferred \ {r}
           /\ stack' = Append(SetTop(stack, [Top EXCEPT !.copy = Tail(@),
                                                        !.ran = Append(@, r)]),
                              ExecFrame("react", r, current, 0))
           /\ current' = r
           /\ dependentReactions' = e1.dr
           /\ triggeringProperties' = e1.tp
           /\ hist' = [hist EXCEPT !.exec[r] = @ + 1]
    /\ UNCHANGED << prog, value, function, dirty, executionInProgress,
                    reactionsWhoReceivedOldValue, constructed, isDeferred,
                    failed >>

\* Line 94: the round is over.
FlushRoundEnd ==
    /\ stack # << >>
    /\ Top.kind = "flush"
    /\ Top.inRound
    /\ Top.copy = << >>
    /\ stack' = SetTop(stack, [Top EXCEPT !.iter = @ - 1, !.inRound = FALSE,
                                         !.snap = {}, !.ran = << >>])
    /\ UNCHANGED << prog, value, function, dirty, executionInProgress,
                    reactionsWhoReceivedOldValue, dependentReactions,
                    triggeringProperties, constructed, current, isDeferred,
                    deferred, failed, hist >>

\* Lines 97-99: the loop has ended and the destructor throws.
FlushThrow ==
    /\ stack # << >>
    /\ Top.kind = "flush"
    /\ ~Top.inRound
    /\ ~LoopContinues(Top.iter)
    /\ Throws(Top.iter)
    /\ failed' = TRUE
    /\ stack' = SetTop(stack, [Top EXCEPT !.kind = "thrown"])
    /\ UNCHANGED << prog, value, function, dirty, executionInProgress,
                    reactionsWhoReceivedOldValue, dependentReactions,
                    triggeringProperties, constructed, current, isDeferred,
                    deferred, hist >>

\* Lines 100-101: the loop has ended and the batch is closed.
FlushDone ==
    /\ stack # << >>
    /\ Top.kind = "flush"
    /\ ~Top.inRound
    /\ ~LoopContinues(Top.iter)
    /\ ~Throws(Top.iter)
    /\ isDeferred' = FALSE
    /\ deferred' = {}
    /\ stack' = IF Top.phase = "unwind"
                THEN SetTop(stack, Frame("unwinding", NULL))
                ELSE Pop(stack)
    /\ UNCHANGED << prog, value, function, dirty, executionInProgress,
                    reactionsWhoReceivedOldValue, dependentReactions,
                    triggeringProperties, constructed, current, failed, hist >>

\* std::bad_function_call propagates one frame down.  A running execute()
\* is left through ~ValueGuard (lines 29-31), and the getValue around it is
\* left with executionInProgress still set; the host catches the exception
\* at its call; the guard of a Reaction constructor dies and flushes; an
\* exception that leaves the loop of ~DeferredGuard ends the program.
Unwind ==
    /\ stack # << >>
    /\ Top.kind = "unwinding"
    /\ LET below == Pop(stack)
           f == below[Len(below)]
       IN  IF below = << >> \/ (f.kind = "guard" /\ ~f.auto)
           THEN /\ stack' = below
                /\ UNCHANGED current
           ELSE IF f.kind \in {"react", "prop"} /\ f.phase = "run"
           THEN /\ stack' = Append(Pop(below), Top)
                /\ current' = ValueGuardRestore(f)
           ELSE IF f.kind = "guard"
           THEN /\ stack' = IF DtorFlushes(f.enabled)
                            THEN SetTop(below, [FlushFrame EXCEPT !.phase = "unwind"])
                            ELSE Append(Pop(below), Top)
                /\ UNCHANGED current
           ELSE /\ stack' = SetTop(stack, [Top EXCEPT !.kind = "terminated"])
                /\ UNCHANGED current
    /\ UNCHANGED << prog, value, function, dirty, executionInProgress,
                    reactionsWhoReceivedOldValue, dependentReactions,
                    triggeringProperties, constructed, isDeferred, deferred,
                    failed, hist >>

\* -------------------------------------------------------------------- Next

\* What the host does.
HostStep ==
    \/ \E p \in Props : HostGet(p)
    \/ \E p \in Props : \E v \in Program.vals[p] : HostSetValue(p, v)
    \/ \E p \in Props : \E i \in 1 .. Len(Program.fns[p]) : HostSetFunction(p, i)
    \/ \E r \in Reacts : HostNewReaction(r)
    \/ HostBatchEnter
    \/ HostBatchExit

\* What the engine does once called: it runs to completion.
EngineStep ==
    \/ CtorGuardExit
    \/ InstrGet
    \/ InstrSkip
    \/ InstrSet
    \/ PropReturn
    \/ PropClear
    \/ ReactReturn
    \/ FlushRoundStart
    \/ FlushExec
    \/ FlushRoundEnd
    \/ FlushThrow
    \/ FlushDone
    \/ Unwind

Next == HostStep \/ EngineStep

\* The calls the host of the Cycle program can make (it has no value to
\* write), and the steps its closures can take (they only read).
CycleHostStep ==
    \/ \E p \in Props : HostGet(p)
    \/ \E p \in Props : \E i \in 1 .. Len(Program.fns[p]) : HostSetFunction(p, i)
    \/ \E r \in Reacts : HostNewReaction(r)
    \/ HostBatchEnter
    \/ HostBatchExit

CycleEngineStep ==
    \/ CtorGuardExit
    \/ InstrGet
    \/ PropReturn
    \/ PropClear
    \/ ReactReturn
    \/ FlushRoundStart
    \/ FlushExec
    \/ FlushRoundEnd
    \/ FlushThrow
    \/ FlushDone

CycleNext == CycleHostStep \/ CycleEngineStep

\* The state after construction when the host runs the Cycle program.
CycleInit == Init /\ prog = "Cycle"

\* The engine under the Cycle program.  The engine is synchronous code: once
\* called it keeps running until it returns or throws, hence the fairness.
CycleSpec ==
    /\ CycleInit
    /\ [][CycleNext]_vars
    /\ WF_vars(CycleEngineStep)

Spec == Init /\ [][Next]_vars

\* ----------------------------------------------------------------- claims

IsExec(f) == f.kind \in {"react", "prop"} /\ f.phase = "run"

\* The outermost batch has been closed without an error and the host has
\* made no call since.
BatchDone == stack = << >> /\ hist.active /\ ~failed

\* C1: edge symmetry: in every state, consumer c is in producer p's
\* dependentReactions if and only if p is in c's triggeringProperties.
EdgeSymmetry ==
    \A p \in Props : \A c \in Nodes \cup {NULL} :
        c \in dependentReactions[p] <=>
            (c \in Nodes /\ p \in triggeringProperties[c])

\* C1 witness: after a host setValue reaction R has been unsubscribed and run
\* again in the flush, and there are edges to R and to a property.
EdgeSymmetryWitness ==
    /\ stack = << >>
    /\ hist.exec["R"] > 0
    /\ hist.nsets > 0
    /\ \E p \in Props : "R" \in dependentReactions[p]
    /\ \E p \in Props : \E q \in Props : q \in dependentReactions[p]

RECURSIVE Ideal(_, _), IdealVals(_, _, _, _)
Ideal(p, n) ==
    IF function[p] = 0 \/ n = 0 THEN value[p]
    ELSE LET c == Program.fns[p][function[p]]
         IN  Ret(c, IdealVals(c.body, 1, << >>, n - 1))

IdealVals(body, i, vals, n) ==
    IF i > Len(body) THEN vals
    ELSE LET ins == body[i]
             reads == \/ ins.op = "get"
                      \/ ins.op = "getIf" /\ vals[Len(vals)] # 0
         IN  IdealVals(body, i + 1,
                       IF reads THEN Append(vals, Ideal(ins.p, n)) ELSE vals, n)

\* What reaction r reads when every property is up to date.
IdealObs(r) == IdealVals(Program.acts[r][1].body, 1, << >>, Cardinality(Props))

\* D of the Diamond program as a function of A: h(f(A), g(A)).
DiamondB(a) == (a + 1) % ValMod

DiamondC(a) == (a + 2) % ValMod

DiamondD(a) == (DiamondB(a) + DiamondC(a)) % ValMod

\* The diamond is in place and the host has closed a batch in which it made
\* one call, a setValue on A, when R was subscribed to A through B, C and D.
DiamondChanged ==
    /\ prog = "Diamond"
    /\ BatchDone
    /\ hist.nsets = 1
    /\ hist.setProp = "A"
    /\ ~hist.other
    /\ "R" \in hist.subs
    /\ \A p \in {"B", "C", "D"} : function[p] = 1

\* C3: glitch-free diamond: one setValue on A in one batch makes R execute
\* exactly once in the flush, and R reads D = h(f(A), g(A)) for the new A;
\* B and C hold f and g of the new A.
GlitchFreeDiamond ==
    DiamondChanged =>
        /\ hist.exec["R"] = 1
        /\ value["A"] = hist.lastVal
        /\ hist.obs["R"] = << DiamondD(hist.lastVal) >>
        /\ value["B"] = DiamondB(hist.lastVal)
        /\ value["C"] = DiamondC(hist.lastVal)

\* C3 witness: the case has happened in a batch the host opened itself.
GlitchFreeDiamondWitness ==
    /\ DiamondChanged
    /\ hist.explicit
    /\ hist.lastVal = 2
    /\ hist.exec["R"] = 1

\* C4: batch coalescing: when the host has closed a batch in which it made
\* two or more setValue calls on one property and no other call, every
\* reaction that was subscribed to the property, directly or through
\* properties, and that the flush itself did not invalidate again, has
\* executed exactly once and has read what the final values define; and
\* while the host holds the batch open no reaction has executed.
BatchCoalescing ==
    /\ (BatchDone /\ hist.nsets >= 2 /\ ~hist.other) =>
           \A r \in hist.subs \ hist.reinv :
               /\ hist.exec[r] = 1
               /\ hist.obs[r] = IdealObs(r)
    /\ (stack # << >> /\ HostTurn) => \A r \in Reacts : hist.exec[r] = 0

\* C4 as stated: every reaction subscribed to the property executes exactly
\* once at the flush, also one that the flush invalidates again.
BatchCoalescingAsStated ==
    /\ (BatchDone /\ hist.nsets >= 2 /\ ~hist.other) =>
           \A r \in hist.subs :
               /\ hist.exec[r] = 1
               /\ hist.obs[r] = IdealObs(r)
    /\ (stack # << >> /\ HostTurn) => \A r \in Reacts : hist.exec[r] = 0

\* C4 witness: two writes of A in one batch, closed, with R subscribed to A
\* through a derived property.
BatchCoalescingWitness ==
    /\ prog \in {"Diamond", "Branch"}
    /\ BatchDone
    /\ hist.nsets >= 2
    /\ ~hist.other
    /\ "R" \in hist.subs \ hist.reinv
    /\ hist.exec["R"] = 1
    /\ hist.lastVal = 2

\* This step pushes a recompute frame of p: the producer of p is invoked.
Invokes(p) ==
    /\ Len(stack') = Len(stack) + 1
    /\ stack'[Len(stack')].kind = "prop"
    /\ stack'[Len(stack')].node = p

\* The running closure is about to call getValue on p.
AboutToRead(p) ==
    /\ Running(stack)
    /\ Top.pc <= Len(Closure(Top).body)
    /\ LET ins == Closure(Top).body[Top.pc]
       IN  /\ ins.p = p
           /\ \/ ins.op = "get"
              \/ ins.op = "getIf" /\ Top.vals[Len(Top.vals)] # 0

\* A producer is invoked only by a getValue on a property that is dirty and
\* not recomputing; the step defines nothing and invalidates nothing.
LazyStep ==
    \A p \in Props :
        Invokes(p) =>
            /\ dirty[p]
            /\ ~executionInProgress[p]
            /\ function[p] # 0
            /\ HostTurn \/ AboutToRead(p)
            /\ function' = function
            /\ value' = value
            /\ dirty' = dirty
            /\ deferred' = deferred

\* A getValue on a property that is not dirty hands the caller the cached
\* value and invokes nothing.
MemoStep ==
    \A p \in Props :
        (AboutToRead(p) /\ ~dirty[p]) =>
            /\ Len(stack') = Len(stack)
            /\ stack'[Len(stack)].vals = Append(Top.vals, value[p])
            /\ value' = value

\* C5: laziness and memoization: the producer of a property is invoked only
\* inside getValue on that property when it is dirty and not recomputing;
\* setFunction, setValue and invalidation never invoke it, and getValue on a
\* property that is not dirty returns the cached value without invoking it.
Laziness == [][LazyStep /\ MemoStep]_vars

\* C5 witness: the producer of D is running, has read B and is about to read
\* C, which has a producer and is not dirty.
LazinessWitness ==
    /\ prog = "Diamond"
    /\ AboutToRead("C")
    /\ Top.node = "D"
    /\ function["C"] # 0
    /\ ~dirty["C"]

\* The outermost guard's destructor has been left, by return or by throw.
OutermostExited == stack = << >> \/ failed

\* C6: teardown on every exit: once the outermost batch scope has exited,
\* by reaching a fixpoint or by failing, isDeferred is false and deferred is
\* empty.
TeardownOnEveryExit ==
    OutermostExited => (~isDeferred /\ deferred = {})

\* C7: round-cap failure condition: the exit of the outermost batch fails
\* only if deferred is still non-empty after the rounds have been run.
FailsOnlyIfPending == failed => deferred # {}

\* The engine is running (the host is waiting for a call to return).
EngineRunning == stack # << >> /\ ~HostTurn /\ ~failed

\* Both producers of the Cycle program are installed: A = B + 1 and B = A.
CycleInstalled == prog = "Cycle" /\ function["A"] = 1 /\ function["B"] = 1

\* A flush is running over the installed cycle with R pending or executing.
OscillatingFlush ==
    /\ CycleInstalled
    /\ InFlush
    /\ \/ "R" \in deferred
       \/ \E i \in 1 .. Len(stack) : stack[i].kind = "react"

\* No flush runs more than maxIterations rounds; a flush throws only after
\* exactly maxIterations rounds; and a round over the installed cycle leaves R
\* pending again, so that such a flush cannot end without throwing.
CycleRounds ==
    /\ \A i \in 1 .. Len(stack) :
          stack[i].kind \in {"flush", "thrown"} =>
              /\ stack[i].rounds <= maxIterations
              /\ stack[i].kind = "thrown" => stack[i].rounds = maxIterations
    /\ failed <=> (stack # << >> /\ Top.kind = "thrown")
    /\ (CycleInstalled /\ stack # << >> /\ Top.kind = "flush" /\ ~Top.inRound
          /\ Top.rounds > 0) => deferred = {"R"}

Constructs(r) == r \notin constructed /\ r \in constructed'

\* This step begins an execution of reaction r's action.
Starts(r) ==
    /\ Len(stack') > Len(stack)
    /\ stack'[Len(stack')].kind = "react"
    /\ stack'[Len(stack')].node = r

\* The constructor: without a batch it opens its own scope and begins the
\* action at once; in a batch it only inserts the reaction into deferred.
ConstructionStep ==
    \A r \in Reacts : Constructs(r) =>
        IF isDeferred
        THEN /\ r \in deferred'
             /\ r \in hist'.born
             /\ stack' = stack
             /\ hist'.exec = hist.exec
        ELSE /\ Starts(r)
             /\ stack'[Len(stack) + 1] = GuardFrame(TRUE, TRUE, r)
             /\ hist'.exec[r] = 1
             /\ r \notin deferred'

\* An execution that the constructor does not begin is begun by a round of a
\* flush, for a reaction that was pending.
RerunStep ==
    \A r \in Reacts : (Starts(r) /\ ~Constructs(r)) =>
        /\ stack # << >>
        /\ Top.kind = "flush"
        /\ Top.inRound
        /\ r \in deferred
        /\ r \notin deferred'

\* A reaction that becomes pending otherwise than by its construction is
\* reached by an invalidation: it is subscribed, directly or through
\* properties, to some property, or it is reached from the consumers that
\* received the old value of a property that was recomputing.
PendStep ==
    \A r \in Reacts : (r \in deferred' \ deferred /\ ~Constructs(r)) =>
        \E p \in Props :
            \/ r \in TransSubs(dependentReactions, p)
            \/ /\ executionInProgress[p]
               /\ r \in Reach(dependentReactions, reactionsWhoReceivedOldValue[p])

\* When execute() has returned to a constructor the action has run once; and
\* when a batch has been closed, a reaction constructed in it has run, once
\* unless it was invalidated during the flush.
ConstructedOnce ==
    /\ (stack # << >> /\ Top.kind = "guard" /\ Top.auto) =>
           hist.exec[Top.node] = 1
    /\ BatchDone =>
           \A r \in hist.born :
               /\ hist.exec[r] >= 1
               /\ r \notin hist.reinv => hist.exec[r] = 1

\* C9: Reaction construction: a Reaction constructed while no batch is active
\* runs its action once, synchronously, in the constructor; one constructed
\* while a batch is active is inserted into deferred without being run by the
\* constructor and runs once in that batch's flush; the action runs again
\* only when an invalidation that reached the reaction made it pending.
ReactionConstruction ==
    /\ [][ConstructionStep /\ RerunStep /\ PendStep]_vars
    /\ []ConstructedOnce

\* C9 witness: a batch has been closed in which S was constructed after R;
\* S has run once, in the flush.
ReactionConstructionWitness ==
    /\ BatchDone
    /\ hist.explicit
    /\ constructed = Reacts
    /\ hist.born = {"S"}
    /\ hist.exec["S"] = 1

\* The state of the engine's objects and statics.
EngineState ==
    << value, function, dirty, executionInProgress, reactionsWhoReceivedOldValue,
       dependentReactions, triggeringProperties, constructed, current,
       isDeferred, deferred >>

\* An enabled guard is alive: the scope that opened the batch has not begun
\* to exit.
OutermostOpen ==
    \E i \in 1 .. Len(stack) : stack[i].kind = "guard" /\ stack[i].enabled

\* While a batch is active an execution of a reaction begins only in a round
\* of the flush, after the guard that opened the batch has begun to die.
DeferredStart ==
    \A r \in Reacts : (Starts(r) /\ isDeferred) =>
        /\ ~OutermostOpen
        /\ Top.kind = "flush"
        /\ Top.inRound

\* The host opens a scope while a batch is active: the guard is not enabled
\* and nothing else changes.
NestedEnter ==
    (isDeferred /\ Len(stack') = Len(stack) + 1
       /\ stack'[Len(stack')].kind = "guard") =>
        /\ ~stack'[Len(stack')].enabled
        /\ stack' = Append(stack, GuardFrame(FALSE, FALSE, NULL))
        /\ UNCHANGED EngineState

\* A guard that is not enabled dies: it is popped and nothing else changes.
NestedExit ==
    (/\ stack # << >>
     /\ Top.kind = "guard"
     /\ ~Top.enabled
     /\ \/ Len(stack') < Len(stack)
        \/ stack'[Len(stack)] # Top) =>
        /\ stack' = Pop(stack)
        /\ hist'.exec = hist.exec
        /\ UNCHANGED EngineState

\* Only the guard at the bottom of the call stack can be enabled, and a batch
\* is active while any guard is alive.
OneOutermost ==
    \A i \in 1 .. Len(stack) : stack[i].kind = "guard" =>
        /\ isDeferred
        /\ stack[i].enabled => i = 1

\* C10: deferral to the outermost scope: while a batch is active no reaction
\* is executed before the exit of the outermost scope begins, whatever
\* invalidates it; entering a nested scope changes nothing; the exit of a
\* nested scope executes no reaction and leaves isDeferred and deferred
\* unchanged.
DeferralToOutermost ==
    /\ [][DeferredStart /\ NestedEnter /\ NestedExit]_vars
    /\ []OneOutermost

\* C10 witness: inside a nested scope a reaction is pending after a setValue
\* and no reaction has been executed in the batch.
DeferralToOutermostWitness ==
    /\ HostGuards = 2
    /\ Len(stack) = 2
    /\ deferred # {}
    /\ hist.nsets > 0
    /\ \A r \in Reacts : hist.exec[r] = 0

\* The frames of the call stack in which a node is executing.
Executing == {i \in 1 .. Len(stack) : IsExec(stack[i])}

\* The node executing in the nearest frame below i, if any.
ExecutingBelow(i) ==
    LET below == {j \in Executing : j < i}
    IN  IF below = {} THEN NULL
        ELSE stack[CHOOSE j \in below : \A k \in below : k <= j].node

\* C11: EvaluationContext nesting: in every state, also while an exception
\* propagates and after it has been caught, current is the node of the
\* innermost running execution, or null when no node is executing, and each
\* running execution has saved the node that was executing around it (so
\* that the restorations are nested, last in first out).
ContextNesting ==
    /\ current = ExecutingBelow(Len(stack) + 1)
    /\ \A i \in Executing : stack[i].saved = ExecutingBelow(i)

\* C11 witness: bad_function_call has propagated out of two nested
\* executions to the host, and current is null again.
ContextNestingWitness ==
    /\ HostTurn
    /\ current = NULL
    /\ \E p \in Props : \E q \in Props :
          /\ p # q
          /\ executionInProgress[p]
          /\ dirty[q] /\ function[q] = 0 /\ executionInProgress[q]

Range(s) == {s[i] : i \in 1 .. Len(s)}

\* In a running round the reactions executed so far and those still to be
\* executed are, each once, the reactions that were pending when the round
\* began.
RoundOnce ==
    \A i \in 1 .. Len(stack) :
        (stack[i].kind = "flush" /\ stack[i].inRound) =>
            LET f == stack[i]
                all == f.ran \o f.copy
            IN  /\ Range(all) = f.snap
                /\ Len(all) = Cardinality(f.snap)

\* A flush frame is on top of the call stack, between two rounds.
BetweenRounds == stack # << >> /\ Top.kind = "flush" /\ ~Top.inRound

\* A round begins with everything that is pending, an execution begun by a
\* round is of a reaction the round has not executed yet, a pending reaction
\* stays pending until a round begins its execution, and while something is
\* pending after fewer than maxIterations rounds the next round begins.
RoundStep ==
    /\ (BetweenRounds /\ Len(stack') >= Len(stack)
           /\ stack'[Len(stack)].inRound) =>
           stack'[Len(stack)].snap = deferred
    /\ \A r \in Reacts :
          /\ (Starts(r) /\ stack # << >> /\ Top.kind = "flush") =>
                /\ r \notin Range(Top.ran)
                /\ stack'[Len(stack)].ran = Append(Top.ran, r)
          /\ (r \in deferred /\ r \notin deferred') =>
                (Starts(r) /\ Top.kind = "flush")
    /\ (BetweenRounds /\ deferred # {} /\ Top.rounds < maxIterations) =>
           (Len(stack') >= Len(stack) /\ stack'[Len(stack)].inRound)

\* C12: flush rounds: every reaction pending at the start of a round executes
\* exactly once in that round; a reaction made pending again after its
\* execution in a round is not executed again in that round, stays pending,
\* and is executed in the next round, which begins if fewer than 64 rounds
\* have run.
FlushRounds ==
    /\ []RoundOnce
    /\ [][RoundStep]_vars

\* C12 as stated: whenever a round has ended with a reaction pending, the
\* next round begins and executes it.
FlushRoundsAsStated ==
    [][(BetweenRounds /\ deferred # {}) =>
           (Len(stack') >= Len(stack) /\ stack'[Len(stack)].inRound)]_vars

\* C12 witness: a round has executed two reactions, and the one it executed
\* first is pending again.
FlushRoundsWitness ==
    /\ stack # << >>
    /\ Top.kind = "flush"
    /\ Top.inRound
    /\ Len(Top.ran) = 2
    /\ Top.copy = << >>
    /\ Top.ran[1] \in deferred

\* The recompute of p that is running: the frames of getValue at line 162.
Recomputing(p) ==
    {i \in 1 .. Len(stack) :
        stack[i].kind = "prop" /\ stack[i].node = p /\ stack[i].phase = "run"}

\* A closure reads a property that is dirty and recomputing: the call starts
\* no recompute, hands back the cached value, which is the value the
\* property had when its recompute began, and inserts the caller into the
\* property's reactionsWhoReceivedOldValue; nothing else changes.
StaleReadStep ==
    \A p \in Props :
        (AboutToRead(p) /\ dirty[p] /\ executionInProgress[p]) =>
            /\ Len(stack') = Len(stack)
            /\ \A q \in Props : ~Invokes(q)
            /\ stack'[Len(stack)].vals = Append(Top.vals, value[p])
            /\ \A i \in Recomputing(p) : stack[i].old = value[p]
            /\ current = Top.node
            /\ reactionsWhoReceivedOldValue' =
                   [reactionsWhoReceivedOldValue EXCEPT ![p] = @ \cup {current}]
            /\ UNCHANGED << value, dirty, executionInProgress, deferred,
                            isDeferred, current >>

\* C13: stale read: a getValue on a property that is dirty and recomputing
\* returns the value cached before the recompute started, does not invoke
\* the producer again, and records the current consumer in the property's
\* reactionsWhoReceivedOldValue.
StaleRead == [][StaleReadStep]_vars

\* C13 witness: inside the recompute of a property a producer has just read
\* that property and received the cached value.
StaleReadWitness ==
    /\ Running(stack)
    /\ Top.vals # << >>
    /\ \E p \in Props :
          /\ Recomputing(p) # {}
          /\ p \in Top.reads
          /\ Top.node \in reactionsWhoReceivedOldValue[p]
          /\ Top.vals[Len(Top.vals)] = value[p]

\* The producer of p has returned and this step runs lines 162-178.
PropReturns(p) ==
    /\ Running(stack)
    /\ Top.kind = "prop"
    /\ Top.node = p
    /\ Top.pc > Len(Closure(Top).body)
    /\ stack' # stack

\* When a recompute completes, the consumers that received the old value are
\* invalidated if the new value differs from the old one, and otherwise
\* nothing is invalidated.
CorrectionStep ==
    \A p \in Props : PropReturns(p) =>
        LET stale == reactionsWhoReceivedOldValue[p]
        IN  IF stale # {} /\ value'[p] # Top.old
            THEN /\ \A c \in stale \cap Reacts : c \in deferred'
                 /\ \A c \in stale \cap Props : dirty'[c]
            ELSE /\ deferred' = deferred
                 /\ dirty' = [dirty EXCEPT ![p] = FALSE]

\* When getValue returns from a recompute the set is empty.
ReturnCleared ==
    \A p \in Props :
        (/\ stack # << >>
         /\ Top.kind = "prop"
         /\ Top.node = p
         /\ Len(stack') = Len(stack) - 1) =>
            reactionsWhoReceivedOldValue'[p] = {}

\* getValue of p is between line 164 and line 176: the batch of line 170 is
\* being closed.
Correcting(p) ==
    \E i \in 1 .. Len(stack) :
        stack[i].kind = "prop" /\ stack[i].node = p /\ stack[i].phase = "clear"

\* The set of a property is empty unless the property is recomputing or its
\* getValue is closing the batch of the correction.
StaleOnlyInGetValue ==
    \A p \in Props :
        reactionsWhoReceivedOldValue[p] # {} =>
            (executionInProgress[p] \/ Correcting(p))

\* C14: stale-reader correction: when a recompute completes with a non-empty
\* reactionsWhoReceivedOldValue, its consumers are invalidated if and only if
\* the new value differs from the old one; the set is empty when getValue
\* returns; and the set is empty whenever the property is neither
\* recomputing nor closing the batch of the correction inside getValue.
StaleCorrection ==
    /\ [][CorrectionStep /\ ReturnCleared]_vars
    /\ []StaleOnlyInGetValue

\* C14 as stated: the set is empty whenever the property is not recomputing.
StaleEmptyUnlessRecomputing ==
    \A p \in Props :
        ~executionInProgress[p] => reactionsWhoReceivedOldValue[p] = {}

\* C14 witness: the recompute of a property has completed with another
\* value, the property that received the old value is dirty, and getValue
\* is closing the batch before it clears the set.
StaleCorrectionWitness ==
    \E p \in Props :
        /\ Correcting(p)
        /\ ~executionInProgress[p]
        /\ \E c \in reactionsWhoReceivedOldValue[p] \cap Props : dirty[c]

\* This step returns from the getValue of p that recomputed p.
GetValueReturns(p) ==
    /\ stack # << >>
    /\ Top.kind = "prop"
    /\ Top.node = p
    /\ Len(stack') = Len(stack) - 1

\* When the producer has returned, the property is not recomputing, and it
\* is dirty only if the correction of a changed value has reached the
\* property itself from the consumers that received the old value; the
\* closing of the correction's batch and the return change neither flag.
RecomputeEndStep ==
    \A p \in Props :
        /\ PropReturns(p) =>
              /\ ~executionInProgress'[p]
              /\ dirty'[p] =>
                    /\ reactionsWhoReceivedOldValue[p] # {}
                    /\ value'[p] # Top.old
                    /\ p \in Reach(dependentReactions,
                                   reactionsWhoReceivedOldValue[p])
        /\ (GetValueReturns(p) /\ ~PropReturns(p)) =>
              /\ dirty'[p] = dirty[p]
              /\ executionInProgress'[p] = executionInProgress[p]

\* C15: recompute ends clean: when a getValue that started a recompute
\* returns, the property is not recomputing; it is not dirty unless its
\* producer reads the property itself, directly or through other producers,
\* and the recompute changed the value; and a getValue on a property that is
\* not dirty does not invoke the producer.
RecomputeEndsClean == [][RecomputeEndStep /\ MemoStep]_vars

\* C15 as stated: when a getValue that started a recompute returns, the
\* property is neither dirty nor recomputing, whatever the dependency shape.
RecomputeEndsCleanAsStated ==
    [][\A p \in Props : GetValueReturns(p) =>
           (~dirty'[p] /\ ~executionInProgress'[p])]_vars

\* C15 witness: reaction R has read the property whose producer reads the
\* property itself and returns the same value: the property is clean.
RecomputeEndsCleanWitness ==
    /\ prog = "Self"
    /\ function["A"] = 2
    /\ Running(stack)
    /\ Top.node = "R"
    /\ "A" \in Top.reads
    /\ Top.pc > 1
    /\ ~dirty["A"]
    /\ ~executionInProgress["A"]

\* This step is a call p.setValue(hist'.lastVal) of the host, as far as the
\* history shows.
HostSets(p) ==
    /\ HostTurn
    /\ ~hist'.other
    /\ hist'.setProp = p
    /\ hist'.nsets = (IF isDeferred THEN hist.nsets ELSE 0) + 1

\* This step is a call p.setValue(ClosureWrites) of the running closure.
ClosureSets(p) ==
    /\ Running(stack)
    /\ Top.pc <= Len(Closure(Top).body)
    /\ stack' # stack
    /\ LET ins == Closure(Top).body[Top.pc]
       IN  /\ ins.p = p
           /\ \/ ins.op = "setCopy"
              \/ ins.op = "setDec" /\ Top.vals[Len(Top.vals)] > 0

\* The value the running closure writes.
ClosureWrites ==
    LET ins == Closure(Top).body[Top.pc]
        x == Top.vals[Len(Top.vals)]
    IN  IF ins.op = "setDec" THEN x - 1 ELSE x

\* What setValue(v) has done to p and to p's subscribers when it has
\* invalidated them, before the batch it may own is flushed.  P's subscriber
\* set loses P itself, when P was subscribed to itself, and nothing else.
SetValuePost(p, v, subscribers) ==
    /\ value'[p] = v
    /\ ~dirty'[p]
    /\ function'[p] = 0
    /\ triggeringProperties'[p] = {}
    /\ \A q \in Props : p \notin dependentReactions'[q]
    /\ dependentReactions'[p] = subscribers \ {p}
    /\ \A c \in subscribers \ {p} :
          /\ c \in Props => dirty'[c]
          /\ c \in Reacts => c \in deferred'
    /\ isDeferred'
    /\ IF isDeferred
       THEN Len(stack') = Len(stack)
       ELSE /\ Len(stack') = Len(stack) + 1
            /\ stack'[Len(stack')] = FlushFrame

\* The flush of a batch ends normally only with nothing pending, and a
\* pending reaction stops being pending only by being executed.
FlushedBeforeReturn ==
    /\ (stack # << >> /\ Top.kind = "flush" /\ Len(stack') < Len(stack)) =>
           deferred = {}
    /\ \A r \in deferred \ deferred' : Starts(r)

\* C16: setValue post-state: after setValue(v) on P has invalidated, P's
\* value is v, P is not dirty, has no producer and no dependency edges,
\* every other consumer that was subscribed to P is invalidated (properties
\* dirty, reactions pending and, when setValue owns the batch, executed in
\* the flush before setValue returns), and P's subscriber set is unchanged
\* but for P itself.
SetValuePostState ==
    [][/\ \A p \in Props :
             /\ HostSets(p) =>
                   SetValuePost(p, hist'.lastVal, dependentReactions[p])
             /\ ClosureSets(p) =>
                   SetValuePost(p, ClosureWrites, dependentReactions[p])
       /\ FlushedBeforeReturn]_vars

\* C16 as stated: setValue does not modify P's own subscriber set.
SetValueKeepsSubscribers ==
    [][\A p \in Props :
           (HostSets(p) \/ ClosureSets(p)) =>
               dependentReactions'[p] = dependentReactions[p]]_vars

\* C16 witness: the host has written A, to which two properties were
\* subscribed, with no batch active: both are dirty, R, which read D, is
\* pending, and the flush has begun.
SetValuePostStateWitness ==
    /\ prog = "Diamond"
    /\ stack = << FlushFrame >>
    /\ hist.nsets = 1
    /\ hist.setProp = "A"
    /\ value["A"] = hist.lastVal
    /\ dependentReactions["A"] = {"B", "C"}
    /\ dirty["B"] /\ dirty["C"] /\ dirty["D"]
    /\ deferred = {"R"}

\* The dirty flags a pass can start from in this state: the flags as they
\* are, or with the flag of one property reset (line 165, line 194).
PassInputs == {dirty} \cup {Cleaned(dirty, q) : q \in Props}

RECURSIVE Subscriptions(_, _)
\* How many subscriptions of properties the properties of S have.
Subscriptions(dr, S) ==
    IF S = {} THEN 0
    ELSE LET q == CHOOSE x \in S : TRUE
         IN  Cardinality(dr[q] \cap Props) + Subscriptions(dr, S \ {q})

\* makeDirty on p, from the flags d and the subscriber sets of this state,
\* ends; on a dirty property it changes nothing; it sets the flag of no
\* property twice, and only of properties that were not dirty; and it makes
\* no more calls than the first one and one for each subscription of a
\* property whose flag it set.
PassEnds(d, p) ==
    LET st == makeDirty(Pass(d, deferred), dependentReactions, p)
        marked == {q \in Props : st.marks[q] > 0}
    IN  /\ d[p] => (st.dirty = d /\ st.deferred = deferred /\ marked = {})
        /\ \A q \in Props : st.marks[q] <= 1
        /\ marked = {q \in Props : ~d[q] /\ st.dirty[q]}
        /\ \A q \in Props : d[q] => st.dirty[q]
        /\ st.calls <= 1 + Subscriptions(dependentReactions, marked)

\* C17: invalidation pass terminates: makeDirty on a property always
\* terminates, also when the subscriber edges form a cycle; it is a no-op on
\* a property that is dirty and within one pass sets the dirty flag of each
\* property at most once.
InvalidationPassTerminates ==
    \A d \in PassInputs : \A p \in Props : PassEnds(d, p)

\* C17 witness: the correction after a recompute has run makeDirty over a
\* cycle of subscriber edges: A is subscribed to B and B to A, and both are
\* dirty again.
InvalidationPassTerminatesWitness ==
    /\ "A" \in dependentReactions["B"]
    /\ "B" \in dependentReactions["A"]
    /\ dirty["A"] /\ dirty["B"]
    /\ ~executionInProgress["A"] /\ ~executionInProgress["B"]
    /\ function["A"] # 0 /\ function["B"] # 0

\* The programs whose graph is acyclic and whose producers only read.
AcyclicReadOnly == prog \in {"Diamond", "Branch", "Countdown", "Chain"}

\* No batch is active and no node is executing.
Quiescent == stack = << >> /\ ~isDeferred /\ current = NULL

\* The producer of p evaluated once on the cached values as they are now.
OnCurrentValues(p) == Ideal(p, 1)

\* C18: value consistency at quiescence: in an acyclic graph whose producers
\* only read, when no batch is active and nothing executes, every property
\* that has a producer and is not dirty caches the value its producer gives
\* on the current values of the properties it depends on, and none of those
\* properties is dirty.
QuiescentConsistency ==
    (AcyclicReadOnly /\ Quiescent) =>
        \A p \in Props :
            (function[p] # 0 /\ ~dirty[p]) =>
                /\ value[p] = OnCurrentValues(p)
                /\ \A q \in triggeringProperties[p] : ~dirty[q]

\* C18 witness: the diamond at rest after the host wrote A: B, C and D have
\* producers and are clean, D depends on B and C, and A is not the initial 0.
QuiescentConsistencyWitness ==
    /\ prog = "Diamond"
    /\ Quiescent
    /\ value["A"] # 0
    /\ \A p \in {"B", "C", "D"} : function[p] # 0 /\ ~dirty[p]
    /\ triggeringProperties["D"] = {"B", "C"}
    /\ triggeringProperties["B"] = {"A"}
    /\ value["D"] = DiamondD(value["A"])

\* A step that inserts a reaction into the pending set.
InsertsPending == deferred' \ deferred # {}

\* C19: pending only inside a batch: when isDeferred is false the pending
\* set is empty, and a reaction is inserted into the pending set only while
\* a batch, explicit or implicit, is active.
PendingOnlyInBatch ==
    /\ [](~isDeferred => deferred = {})
    /\ [][InsertsPending => isDeferred']_vars

\* C19 witness: a batch of the host is over, isDeferred is false again and
\* nothing is pending, after a reaction built before the batch was made
\* pending in it and was run by its flush.
PendingOnlyInBatchWitness ==
    /\ BatchDone
    /\ ~isDeferred
    /\ deferred = {}
    /\ hist.explicit
    /\ \E r \in constructed \ hist.born : hist.exec[r] >= 1

\* C20: dirty implies a producer exists: in every state a property whose
\* dirty flag is set has a non-empty producer function, so getValue never
\* invokes an empty function.
DirtyHasProducer ==
    /\ \A p \in Props : dirty[p] => function[p] # 0
    /\ \A i \in 1 .. Len(stack) : stack[i].kind # "unwinding"

====
